---- MODULE Spec2Model ----
(***************************************************************************)
(* Model of src/index.ts: a scraper that walks a scrollable listing of     *)
(* companies (getCompanies), deduplicates the yielded records (main),      *)
(* fetches the founders of every record with bounded retries              *)
(* (getFoundersDataWithRetries) and streams the enriched records to a      *)
(* file.  The program is one async flow; every action below is the code    *)
(* between two awaits.  The browser driver and the remote pages are the    *)
(* environment: what they render, the heights they report and whether an   *)
(* awaited call throws are chosen nondeterministically from small sets.    *)
(***************************************************************************)
EXTENDS Integers, Sequences, FiniteSets, TLC

\* ---------------------------------------------------------------- bounds
\* Most items the listing page ever renders.
MaxItems == 2

\* ------------------------------------------------------ program constants
\* maxRetries: number = 3
MaxRetries == 3

\* ------------------------------------------------------------ JS values
\* An optional string (string | null | undefined): <<>> or <<s>>.
None == <<>>
Some(s) == <<s>>

\* JS truthiness of an optional string: null, undefined and "" are falsy.
Truthy(o) == o # None /\ o[1] # ""

\* `${v}` of a string | null.
TemplateStr(o) == IF o = None THEN "null" ELSE o[1]

SeqsUpTo(S, n) == UNION {[1..k -> S] : k \in 0..n}

Range(s) == {s[i] : i \in 1..Len(s)}

\* ------------------------------------------------------ the environment
\* Items the listing page may render: an element with an optional name
\* element, an optional location element and an optional href attribute.
ListingItems ==
    { [name |-> Some("A"), location |-> Some("X"), href |-> Some("/a")],
      [name |-> Some("B"), location |-> Some("X"), href |-> Some("/a")],
      [name |-> None,      location |-> Some("X"), href |-> Some("/a")],
      [name |-> Some("A"), location |-> None,      href |-> Some("/a")],
      [name |-> Some("A"), location |-> Some("X"), href |-> None] }

\* Scroll heights document.body.scrollHeight may report.
Heights == {100, 250}

\* Founder cards a detail page may render: an optional .font-bold text and
\* an optional .space-x-2 container holding anchors with optional hrefs.
CardFull == [name |-> Some("Jo"), socials |-> Some(<<Some("https://x.com/jo")>>)]
CardNoHref == [name |-> Some("Al"), socials |-> Some(<<None>>)]
CardNoSocials == [name |-> Some("Jo"), socials |-> None]
CardNoName == [name |-> None, socials |-> Some(<<Some("https://x.com/jo")>>)]

\* The .ycdc-card elements a detail page may show once waitForSelector has
\* returned: at least one card.
DetailPages ==
    { <<CardFull>>, <<CardNoName>>, <<CardNoSocials>>,
      <<CardFull, CardNoHref>>, <<CardNoName, CardFull>> }

\* ------------------------------------------------------- getCompanies
\* const link = `https://ycombinator.com${route}`
CompanyLink(route) == "https://ycombinator.com" \o TemplateStr(route)

\* if (name && location && link)
IsComplete(item) ==
    /\ Truthy(item.name)
    /\ Truthy(item.location)
    /\ Truthy(Some(CompanyLink(item.href)))

\* yield { name, location, link }
YieldValue(item) ==
    [name |-> item.name[1], location |-> item.location[1],
     link |-> CompanyLink(item.href)]

\* Mutant of LoopContinues: the loop halts only when the height is unchanged.
LoopContinuesUnlessEqual(cur, prev) == cur # prev

\* Mutant of LoopContinues: the loop also goes on when the height is equal.
LoopContinuesOrEqual(cur, prev) == cur >= prev

\* while (currentHeight > previousHeight)
LoopContinues(cur, prev) == cur > prev

\* ---------------------------------------------------- main: the collector
\* Mutant of SameCompany: the link is left out of the comparison.
SameCompanyNoLink(c, y) == c.name = y.name /\ c.location = y.location

\* (c) => c.name === name && c.location === location && c.link === link
SameCompany(c, y) ==
    c.name = y.name /\ c.location = y.location /\ c.link = y.link

\* Array.from(companyList).find(...)
ExistingCompany(list, y) == \E i \in 1..Len(list) : SameCompany(list[i], y)

\* Mutant of Collect: a new record is put in front of the others.
CollectInFront(list, y) ==
    IF ExistingCompany(list, y) THEN list
    ELSE <<[name |-> y.name, location |-> y.location,
            link |-> y.link, founders |-> <<>>]>> \o list

\* if (!existingCompany) companyList.add({ ...company, founders: [] })
Collect(list, y) ==
    IF ExistingCompany(list, y) THEN list
    ELSE Append(list, [name |-> y.name, location |-> y.location,
                       link |-> y.link, founders |-> <<>>])

\* ------------------------------------------- getFoundersDataWithRetries
\* The links pushed for one card: every href that is truthy.
RECURSIVE CollectLinks(_)
CollectLinks(anchors) ==
    IF anchors = <<>> THEN <<>>
    ELSE LET rest == CollectLinks(Tail(anchors))
         IN  IF Truthy(Head(anchors)) THEN <<Head(anchors)[1]>> \o rest
             ELSE rest

\* Mutant of ExtractFounders: a card with a name is pushed whether or not
\* its social-links container was found.
RECURSIVE ExtractFoundersByName(_)
ExtractFoundersByName(cards) ==
    IF cards = <<>> THEN <<>>
    ELSE LET card == Head(cards)
             rest == ExtractFoundersByName(Tail(cards))
         IN  IF Truthy(card.name)
             THEN <<[name |-> card.name[1],
                     links |-> IF card.socials # None
                               THEN CollectLinks(card.socials[1])
                               ELSE <<>>]>> \o rest
             ELSE rest

\* if (linkElements && founderName) founderList.push({ name, links })
RECURSIVE ExtractFounders(_)
ExtractFounders(cards) ==
    IF cards = <<>> THEN <<>>
    ELSE LET card == Head(cards)
             rest == ExtractFounders(Tail(cards))
         IN  IF card.socials # None /\ Truthy(card.name)
             THEN <<[name |-> card.name[1],
                     links |-> CollectLinks(card.socials[1])]>> \o rest
             ELSE rest

\* Mutant of FetchResult: an empty list is returned as it is.
FetchResultAlways(list) == Some(list)

\* return founderList.length > 0 ? founderList : null
\* (Founder[] | null as an optional value: None is null)
FetchResult(list) == IF Len(list) > 0 THEN Some(list) ELSE None

\* Mutant of RetryAgain: one attempt too many.
RetryAgainInclusive(r) == r <= MaxRetries

\* while (retries < maxRetries)
RetryAgain(r) == r < MaxRetries

\* ------------------------------------------------------ main: the writer
\* --------------------------------------------------------- JSON.stringify
Quote(s) == "\"" \o s \o "\""

RECURSIVE JoinComma(_)
JoinComma(strs) ==
    IF strs = <<>> THEN ""
    ELSE IF Len(strs) = 1 THEN strs[1]
    ELSE strs[1] \o "," \o JoinComma(Tail(strs))

StringifyFounder(f) ==
    "{\"name\":" \o Quote(f.name) \o ",\"links\":["
        \o JoinComma([i \in 1..Len(f.links) |-> Quote(f.links[i])]) \o "]}"

StringifyCompany(c) ==
    "{\"name\":" \o Quote(c.name) \o ",\"location\":" \o Quote(c.location)
        \o ",\"link\":" \o Quote(c.link) \o ",\"founders\":["
        \o JoinComma([i \in 1..Len(c.founders) |-> StringifyFounder(c.founders[i])])
        \o "]}"

\* ------------------------------------------------------------------ state
VARIABLES
    pc,             \* position of the flow between two awaits
    browser,        \* the session: "none", "open" or "closed"
    error,          \* stage whose exception reached main's catch, or "none"
    rendered,       \* items the listing page currently renders
    companies,      \* getCompanies: the snapshot page.$$ returned
    itemIdx,        \* getCompanies: position of the for loop in companies
    previousHeight, \* getCompanies
    currentHeight,  \* getCompanies
    companyList,    \* main: the Set<Company>, in insertion order
    stream,         \* the write stream: "none", "open" or "ended"
    out,            \* the chunks written to the stream, in order
    idx,            \* main: position of the for loop in companyList
    retries,        \* getFoundersDataWithRetries
    founderList,    \* getFoundersDataWithRetries: result of the extraction
    founders,       \* getFoundersDataWithRetries: the cards of the attempt
    pagesOpen,      \* detail pages open in the session
    \* history of the run
    closeCount,     \* calls of browser.close()
    emitted,        \* records getCompanies has yielded, in order
    emittedFrom,    \* the item each yielded record was read from
    heights,        \* heights the scrolls have returned, in order
    iterations,     \* snapshots getCompanies has taken
    listingDone,    \* getCompanies has returned
    tries,          \* attempts the latest fetch has started
    results         \* what each fetch that has returned returned, in order

vars == <<pc, browser, error, rendered, companies, itemIdx, previousHeight,
          currentHeight, companyList, stream, out, idx, retries, founderList,
          founders,          pagesOpen, closeCount, emitted, emittedFrom, heights, iterations,
          listingDone, tries, results>>

listingVars == <<rendered, companies, itemIdx, previousHeight, currentHeight,
                 companyList, emitted, emittedFrom, heights, iterations,
                 listingDone>>

writerVars == <<stream, out, idx>>

fetchVars == <<retries, founderList, founders, pagesOpen, tries, results>>

ListingPcs == {"l_wait", "l_query", "l_item", "l_scroll"}

FetchPcs == {"f_newPage", "f_goto", "f_wait", "f_extract", "f_close"}

Init ==
    /\ pc = "launch"
    /\ browser = "none"
    /\ error = "none"
    /\ rendered = <<>>
    /\ companies = <<>>
    /\ itemIdx = 1
    /\ previousHeight = 0
    /\ currentHeight = 0
    /\ companyList = <<>>
    /\ stream = "none"
    /\ out = <<>>
    /\ idx = 1
    /\ retries = 0
    /\ founderList = <<>>
    /\ founders = <<>>
    /\ pagesOpen = 0
    /\ closeCount = 0
    /\ emitted = <<>>
    /\ emittedFrom = <<>>
    /\ heights = <<>>
    /\ iterations = 0
    /\ listingDone = FALSE
    /\ tries = 0
    /\ results = <<>>

\* ------------------------------------------------------- main: start-up
\* catch (error) { console.error(...) }: control goes on to the finally block.
Caught(stage) ==
    /\ error' = stage
    /\ pc' = "finally"

\* browser = await webkit.launch()
Launch ==
    /\ pc = "launch"
    /\ browser' = "open"
    /\ pc' = "newPage"
    /\ UNCHANGED <<error, closeCount, listingVars, writerVars, fetchVars>>

LaunchThrow ==
    /\ pc = "launch"
    /\ Caught("launch")
    /\ UNCHANGED <<browser, closeCount, listingVars, writerVars, fetchVars>>

\* Mutant of NewPage: the stream is created and opened with '[' before the
\* listing is traversed.
NewPageOpensStream ==
    /\ pc = "newPage"
    /\ pc' = "goto"
    /\ stream' = "open"
    /\ out' = Append(out, "[\n")
    /\ UNCHANGED <<browser, error, closeCount, listingVars, idx, fetchVars>>

\* const page = await browser.newPage()
NewPage ==
    /\ pc = "newPage"
    /\ pc' = "goto"
    /\ UNCHANGED <<browser, error, closeCount, listingVars, writerVars, fetchVars>>

\* await page.goto(url); the page renders its first items.  Then
\* companyList = new Set() and the first next() of the generator:
\* currentHeight = 0.
Goto ==
    /\ pc = "goto"
    /\ \E first \in SeqsUpTo(ListingItems, MaxItems) : rendered' = first
    /\ currentHeight' = 0
    /\ companyList' = <<>>
    /\ pc' = "l_wait"
    /\ UNCHANGED <<browser, error, closeCount, companies, itemIdx,
                   previousHeight, emitted, emittedFrom, heights, iterations,
                   listingDone, writerVars, fetchVars>>

\* browser.newPage() or page.goto(url) throws.
StartThrow ==
    /\ pc \in {"newPage", "goto"}
    /\ Caught(pc)
    /\ UNCHANGED <<browser, closeCount, listingVars, writerVars, fetchVars>>

\* ------------------------------------------------ getCompanies, stepwise
\* previousHeight = currentHeight; await page.waitForSelector(item): it
\* returns once an item is rendered.
ListWait ==
    /\ pc = "l_wait"
    /\ rendered # <<>>
    /\ previousHeight' = currentHeight
    /\ pc' = "l_query"
    /\ UNCHANGED <<browser, error, closeCount, rendered, companies, itemIdx,
                   currentHeight, companyList, emitted, emittedFrom, heights,
                   iterations, listingDone, writerVars, fetchVars>>

\* Mutant of ListQuery: only the items that were not in the previous
\* snapshot are visited.
ListQueryNovelOnly ==
    /\ pc = "l_query"
    /\ companies' = SubSeq(rendered, Len(companies) + 1, Len(rendered))
    /\ itemIdx' = 1
    /\ iterations' = iterations + 1
    /\ pc' = IF Len(rendered) > Len(companies) THEN "l_item" ELSE "l_scroll"
    /\ UNCHANGED <<browser, error, closeCount, rendered, previousHeight,
                   currentHeight, companyList, emitted, emittedFrom, heights,
                   listingDone, writerVars, fetchVars>>

\* const companies = await page.$$(item)
ListQuery ==
    /\ pc = "l_query"
    /\ companies' = rendered
    /\ itemIdx' = 1
    /\ iterations' = iterations + 1
    /\ pc' = "l_item"
    /\ UNCHANGED <<browser, error, closeCount, rendered, previousHeight,
                   currentHeight, companyList, emitted, emittedFrom, heights,
                   listingDone, writerVars, fetchVars>>

\* One pass of for (const companyElement of companies): the extraction, the
\* yield of a complete item and the body of main's for await on it.
ListItem ==
    /\ pc = "l_item"
    /\ itemIdx <= Len(companies)
    /\ LET item == companies[itemIdx]
       IN  IF IsComplete(item)
           THEN /\ emitted' = Append(emitted, YieldValue(item))
                /\ emittedFrom' = Append(emittedFrom, item)
                /\ companyList' = Collect(companyList, YieldValue(item))
           ELSE UNCHANGED <<emitted, emittedFrom, companyList>>
    /\ itemIdx' = itemIdx + 1
    /\ pc' = IF itemIdx + 1 > Len(companies) THEN "l_scroll" ELSE "l_item"
    /\ UNCHANGED <<browser, error, closeCount, rendered, companies,
                   previousHeight, currentHeight, heights, iterations,
                   listingDone, writerVars, fetchVars>>

\* currentHeight = await page.evaluate(scroll); while (currentHeight >
\* previousHeight).  The scroll may make the page append an item; what the
\* page renders after the last scroll is never read and is left as it is.
ListScroll ==
    /\ pc = "l_scroll"
    /\ \E h \in Heights :
          /\ currentHeight' = h
          /\ heights' = Append(heights, h)
          /\ IF LoopContinues(h, previousHeight)
             THEN /\ pc' = "l_wait"
                  /\ UNCHANGED listingDone
                  /\ \/ UNCHANGED rendered
                     \/ /\ Len(rendered) < MaxItems
                        /\ \E item \in ListingItems :
                              rendered' = Append(rendered, item)
             ELSE /\ pc' = "stream"
                  /\ listingDone' = TRUE
                  /\ UNCHANGED rendered
    /\ UNCHANGED <<browser, error, closeCount, companies, itemIdx,
                   previousHeight, companyList, emitted, emittedFrom,
                   iterations, writerVars, fetchVars>>

\* Mutant of ListThrow: the exception is swallowed and the run goes on with
\* the records collected so far.
ListThrowSalvage ==
    /\ pc \in ListingPcs
    /\ error' = "listing"
    /\ pc' = "stream"
    /\ UNCHANGED <<browser, closeCount, listingVars, writerVars, fetchVars>>

\* Any await of getCompanies throws (waitForSelector times out when nothing
\* is rendered): the exception leaves the for await and reaches main's catch.
ListThrow ==
    /\ pc \in ListingPcs
    /\ Caught("listing")
    /\ UNCHANGED <<browser, closeCount, listingVars, writerVars, fetchVars>>

\* ------------------------------------------------------ main: the writer
\* company.founders = founderData
Enriched(c, fd) == [c EXCEPT !.founders = fd[1]]

\* Mutant of WriteResult: a record whose fetch returned null is written
\* with its empty founders.
WriteResultAlways(o, c, fd) ==
    Append(o, StringifyCompany(IF fd # None THEN Enriched(c, fd) ELSE c) \o ",\n")

\* Mutant of WriteResult: nothing is written when the result arrives.
WriteResultDeferred(o, c, fd) == o

\* Mutant of WriteResult: the record is written without the comma after it.
WriteResultNoComma(o, c, fd) ==
    IF fd # None THEN Append(o, StringifyCompany(Enriched(c, fd)) \o "\n")
    ELSE o

\* if (founderData) stream.write(JSON.stringify(company) + ',\n')
WriteResult(o, c, fd) ==
    IF fd # None THEN Append(o, StringifyCompany(Enriched(c, fd)) \o ",\n")
    ELSE o

\* const stream = fs.createWriteStream(...); stream.write('[\n')
OpenStream ==
    /\ pc = "stream"
    /\ stream' = "open"
    /\ out' = Append(out, "[\n")
    /\ idx' = 1
    /\ pc' = "e_next"
    /\ UNCHANGED <<browser, error, closeCount, listingVars, fetchVars>>

\* for (const company of companyList): the next record; the call of
\* getFoundersDataWithRetries up to its first await: retries = 0.
StartFetch ==
    /\ pc = "e_next"
    /\ idx <= Len(companyList)
    /\ retries' = 0
    /\ tries' = 0
    /\ founderList' = <<>>
    /\ pc' = "f_newPage"
    /\ UNCHANGED <<browser, error, closeCount, listingVars, writerVars,
                   founders, pagesOpen, results>>

\* The loop is over: stream.write(']'); stream.end()
FinishStream ==
    /\ pc = "e_next"
    /\ idx > Len(companyList)
    /\ out' = Append(out, "]")
    /\ stream' = "ended"
    /\ pc' = "finally"
    /\ UNCHANGED <<browser, error, closeCount, listingVars, idx, fetchVars>>

\* Mutant of Receive: after a null result the loop stays on the same record.
ReceiveAgainOnNull(fd) ==
    /\ results' = Append(results, fd)
    /\ companyList' = IF fd # None
                      THEN [companyList EXCEPT ![idx] = Enriched(@, fd)]
                      ELSE companyList
    /\ out' = WriteResult(out, companyList[idx], fd)
    /\ idx' = IF fd # None THEN idx + 1 ELSE idx
    /\ pc' = "e_next"

\* getFoundersDataWithRetries returns fd to main: a non-null result is
\* assigned and written, and the loop moves on.
Receive(fd) ==
    /\ results' = Append(results, fd)
    /\ companyList' = IF fd # None
                      THEN [companyList EXCEPT ![idx] = Enriched(@, fd)]
                      ELSE companyList
    /\ out' = WriteResult(out, companyList[idx], fd)
    /\ idx' = idx + 1
    /\ pc' = "e_next"

\* Mutant of AttemptFailed: the catch block forgets retries++, so a failed
\* attempt is always tried again.
AttemptFailedNoCount ==
    /\ retries' = retries
    /\ IF RetryAgain(retries)
       THEN /\ pc' = "f_newPage"
            /\ UNCHANGED <<results, companyList, out, idx>>
       ELSE Receive(None)

\* ------------------------------------ getFoundersDataWithRetries, stepwise
\* catch (error) { retries++ }, then the loop test; after the last retry
\* the function returns null.
AttemptFailed ==
    /\ retries' = retries + 1
    /\ IF RetryAgain(retries + 1)
       THEN /\ pc' = "f_newPage"
            /\ UNCHANGED <<results, companyList, out, idx>>
       ELSE Receive(None)

\* const newPage = await browser.newPage()
FetchNewPage ==
    /\ pc = "f_newPage"
    /\ tries' = tries + 1
    /\ pagesOpen' = pagesOpen + 1
    /\ pc' = "f_goto"
    /\ UNCHANGED <<browser, error, closeCount, rendered, companies, itemIdx,
                   previousHeight, currentHeight, companyList, emitted,
                   emittedFrom, heights, iterations, listingDone, writerVars,
                   retries, founderList, founders, results>>

\* browser.newPage() throws: no page was opened.
FetchNewPageThrow ==
    /\ pc = "f_newPage"
    /\ tries' = tries + 1
    /\ AttemptFailed
    /\ UNCHANGED <<browser, error, closeCount, rendered, companies, itemIdx,
                   previousHeight, currentHeight, emitted, emittedFrom,
                   heights, iterations, listingDone, stream, founderList,
                   founders, pagesOpen>>

\* await newPage.goto(companyLink)
FetchGoto ==
    /\ pc = "f_goto"
    /\ pc' = "f_wait"
    /\ UNCHANGED <<browser, error, closeCount, listingVars, writerVars,
                   fetchVars>>

\* await newPage.waitForSelector('.ycdc-card', { timeout: 10000 })
FetchWait ==
    /\ pc = "f_wait"
    /\ pc' = "f_extract"
    /\ UNCHANGED <<browser, error, closeCount, listingVars, writerVars,
                   fetchVars>>

\* const founders = await newPage.$$('.ycdc-card') and the loop over them.
FetchExtract ==
    /\ pc = "f_extract"
    /\ \E cards \in DetailPages :
          /\ founders' = cards
          /\ founderList' = ExtractFounders(cards)
    /\ pc' = "f_close"
    /\ UNCHANGED <<browser, error, closeCount, listingVars, writerVars,
                   retries, pagesOpen, tries, results>>

\* await newPage.close(); return founderList.length > 0 ? founderList : null
\* (founders, a const of the try block, goes out of scope)
FetchClose ==
    /\ pc = "f_close"
    /\ pagesOpen' = pagesOpen - 1
    /\ founders' = <<>>
    /\ Receive(FetchResult(founderList))
    /\ UNCHANGED <<browser, error, closeCount, rendered, companies, itemIdx,
                   previousHeight, currentHeight, emitted, emittedFrom,
                   heights, iterations, listingDone, stream, retries,
                   founderList, tries>>

\* goto, waitForSelector or the extraction throws: control jumps to the
\* catch block, past newPage.close().
FetchAttemptThrow ==
    /\ pc \in {"f_goto", "f_wait", "f_extract"}
    /\ AttemptFailed
    /\ UNCHANGED <<browser, error, closeCount, rendered, companies, itemIdx,
                   previousHeight, currentHeight, emitted, emittedFrom,
                   heights, iterations, listingDone, stream, founderList,
                   founders, pagesOpen, tries>>

\* newPage.close() throws: the page may or may not have been closed.
FetchCloseThrow ==
    /\ pc = "f_close"
    /\ \E closed \in {0, 1} :
          /\ pagesOpen' = pagesOpen - closed
          /\ AttemptFailed
    /\ founders' = <<>>
    /\ UNCHANGED <<browser, error, closeCount, rendered, companies, itemIdx,
                   previousHeight, currentHeight, emitted, emittedFrom,
                   heights, iterations, listingDone, stream, founderList,
                   tries>>

\* -------------------------------------------------------- main: finally
\* Mutant of Finally: the browser is closed on the success path only.
FinallySuccessOnly ==
    /\ pc = "finally"
    /\ IF browser = "open" /\ error = "none"
       THEN /\ browser' = "closed"
            /\ closeCount' = closeCount + 1
            /\ pagesOpen' = 0
       ELSE UNCHANGED <<browser, closeCount, pagesOpen>>
    /\ pc' = "done"
    /\ UNCHANGED <<error, listingVars, writerVars, retries, founderList,
                   founders, tries, results>>

\* finally { if (browser) await browser.close() }: closing the browser
\* closes its pages.
Finally ==
    /\ pc = "finally"
    /\ IF browser = "open"
       THEN /\ browser' = "closed"
            /\ closeCount' = closeCount + 1
            /\ pagesOpen' = 0
       ELSE UNCHANGED <<browser, closeCount, pagesOpen>>
    /\ pc' = "done"
    /\ UNCHANGED <<error, listingVars, writerVars, retries, founderList,
                   founders, tries, results>>

Next ==
    \/ Launch
    \/ LaunchThrow
    \/ NewPage
    \/ Goto
    \/ StartThrow
    \/ ListWait
    \/ ListQuery
    \/ ListItem
    \/ ListScroll
    \/ ListThrow
    \/ OpenStream
    \/ StartFetch
    \/ FinishStream
    \/ FetchNewPage
    \/ FetchNewPageThrow
    \/ FetchGoto
    \/ FetchWait
    \/ FetchExtract
    \/ FetchClose
    \/ FetchAttemptThrow
    \/ FetchCloseThrow
    \/ Finally

Spec == Init /\ [][Next]_vars

\* ================================================================ properties
\* The identity key of a record: its (name, location, link) triple.
Key(c) == [name |-> c.name, location |-> c.location, link |-> c.link]

\* The first occurrence of every element of a sequence, in order.
RECURSIVE FirstOccurrences(_)
FirstOccurrences(s) ==
    IF s = <<>> THEN <<>>
    ELSE LET front == FirstOccurrences(SubSeq(s, 1, Len(s) - 1))
             last == s[Len(s)]
         IN  IF last \in Range(front) THEN front ELSE Append(front, last)

CanonicalKeys == [i \in 1..Len(companyList) |-> Key(companyList[i])]

\* A fetch has returned and the next one has not started: retries and tries
\* are those of the fetch that returned last.
FetchReturned == pc \in {"e_next", "finally", "done"} /\ results # <<>>

\* The founder lists an extraction can produce.
FounderLists == {ExtractFounders(p) : p \in DetailPages}

\* The chunk a record is written as, given its founders.
RecordChunk(c, fl) == StringifyCompany([c EXCEPT !.founders = fl]) \o ",\n"

\* The record chunks of the output, without the brackets.
IsRecordChunk(ch) == ch \notin {"[\n", "]"}
WrittenRecords == SelectSeq(out, IsRecordChunk)

\* The chunks of the non-absent results among the first k fetches.
RECURSIVE EnrichedChunks(_)
EnrichedChunks(k) ==
    IF k = 0 THEN <<>>
    ELSE IF results[k] # None
         THEN Append(EnrichedChunks(k - 1),
                     RecordChunk(companyList[k], results[k][1]))
         ELSE EnrichedChunks(k - 1)

\* C1 Dedup correctness: whatever has been emitted and consumed, the
\* canonical set holds the first emission of every distinct (name, location,
\* link) triple, in order, one record per triple, and its size is the
\* number of distinct triples emitted.
DedupCorrect ==
    /\ CanonicalKeys = FirstOccurrences(emitted)
    /\ Len(companyList) = Cardinality(Range(emitted))
    /\ \A i, j \in 1..Len(companyList) :
          Key(companyList[i]) = Key(companyList[j]) => i = j

\* C1 witness: the traversal is over, it emitted duplicates, and two
\* distinct records were kept.
DedupWitness ==
    /\ listingDone
    /\ Len(emitted) > Len(companyList)
    /\ Len(companyList) = 2

\* C2 Retry exhaustion: a fetch never makes more than maxRetries attempts;
\* one whose every attempt threw has made exactly maxRetries attempts and
\* returned null; no exception reaches main, and the run ends only after
\* the fetcher has been invoked for every canonical record.
RetryExhaustion ==
    /\ tries <= MaxRetries
    /\ (FetchReturned /\ retries = tries) =>
          /\ tries = MaxRetries
          /\ results[Len(results)] = None
    /\ stream # "none" => error = "none"
    /\ (stream # "none" /\ pc \in {"finally", "done"}) =>
          Len(results) = Len(companyList)

\* C2 witness: the fetch of the first of two records has just returned null
\* after maxRetries failed attempts, and the loop is about to fetch the
\* second.
RetryExhaustionWitness ==
    /\ pc = "e_next"
    /\ results = <<None>>
    /\ retries = MaxRetries
    /\ tries = MaxRetries
    /\ idx = 2
    /\ Len(companyList) = 2

\* C3 Drop-on-failure: in every state, no chunk of the output is the
\* serialization of a record whose fetch returned null, with whatever
\* founders (empty ones included), and the number of records written is the
\* number of non-null results.
DropOnFailure ==
    /\ \A i \in 1..Len(results) :
          results[i] = None =>
              \A fl \in FounderLists \cup {<<>>} :
                  RecordChunk(companyList[i], fl) \notin Range(out)
    /\ Len(WrittenRecords) =
          Cardinality({i \in 1..Len(results) : results[i] # None})

\* C3 witness: the run is over, one fetch returned null and one returned
\* founders, and one record was written.
DropOnFailureWitness ==
    /\ pc = "done"
    /\ Len(results) = 2
    /\ results[1] = None
    /\ results[2] # None
    /\ Len(WrittenRecords) = 1

\* C4 Streaming: in every state the record chunks of the output are exactly
\* the serializations of the non-null results among the fetches that have
\* returned, in order; while the fetcher runs for record idx, these are the
\* first idx - 1 records.
Streaming ==
    /\ WrittenRecords = EnrichedChunks(Len(results))
    /\ pc \in FetchPcs => Len(results) = idx - 1

\* C4 witness: the fetcher runs for the second of two records and the
\* first, enriched, is already in the output.
StreamingWitness ==
    /\ pc \in FetchPcs
    /\ idx = 2
    /\ Len(companyList) = 2
    /\ results[1] # None
    /\ Len(WrittenRecords) = 1

\* C5 as stated: with scroll heights [100, 250, 250] the traversal takes
\* exactly 2 snapshots.
TraversalExampleTwoIterations ==
    (listingDone /\ heights = <<100, 250, 250>>) => iterations = 2

\* C5 amended: with scroll heights [100, 250, 250] the traversal does not
\* halt after the first or the second scroll, halts at the third, and has
\* then taken exactly 3 snapshots.
TraversalExampleThreeIterations ==
    /\ heights \in {<<100>>, <<100, 250>>} => ~listingDone
    /\ heights = <<100, 250, 250>> => listingDone /\ iterations = 3

\* C5 witness: the traversal has halted on the heights [100, 250, 250].
TraversalExampleWitness ==
    /\ listingDone
    /\ heights = <<100, 250, 250>>

\* C6 as stated: whenever the fetcher has returned, no detail page is open.
ScopedRelease ==
    pc = "e_next" => pagesOpen = 0

\* C7 Session cleanup: browser.close() is called at most once; a run that
\* opened the session ends with the session closed by one call; and once
\* the session is closed nothing else happens: no snapshot, emission,
\* scroll, fetch attempt, page or write.
SessionCleanup ==
    /\ [](closeCount <= 1)
    /\ []((pc = "done" /\ browser # "none") =>
             (browser = "closed" /\ closeCount = 1))
    /\ [][browser = "closed" =>
             UNCHANGED <<browser, closeCount, iterations, emitted, heights,
                         companyList, tries, pagesOpen, results, stream,
                         out>>]_vars

\* C7 witness: a run that failed in the traversal, after records had been
\* collected, is over and its session is closed.
SessionCleanupWitness ==
    /\ pc = "done"
    /\ error = "listing"
    /\ companyList # <<>>
    /\ browser = "closed"
    /\ closeCount = 1

\* C8 as stated: every yielded record was read from an item that has a
\* name, a location and an href, and carries them.
YieldsOnlyComplete ==
    \A i \in 1..Len(emitted) :
        LET item == emittedFrom[i]
        IN  /\ item.name # None
            /\ item.location # None
            /\ item.href # None
            /\ emitted[i].name = item.name[1]
            /\ emitted[i].location = item.location[1]

\* C9 Phase ordering: whenever the stream exists, something has been
\* written or a fetch attempt has been made, the traversal has returned,
\* the flow is not in getCompanies and every emission has been consumed by
\* the collector.
PhaseOrdering ==
    (stream # "none" \/ out # <<>> \/ tries > 0 \/ pagesOpen > 0
        \/ results # <<>> \/ pc \in FetchPcs)
    => /\ listingDone
       /\ pc \notin ListingPcs
       /\ CanonicalKeys = FirstOccurrences(emitted)

\* C9 witness: a fetch attempt is under way after a traversal of two
\* snapshots.
PhaseOrderingWitness ==
    /\ pc = "f_goto"
    /\ iterations = 2
    /\ Len(emitted) >= 2
    /\ out = <<"[\n">>

\* C10 Listing failure aborts the run: after an exception of the listing
\* phase (the navigation to the listing or any await of the traversal) the
\* flow is in the finally block or over, the traversal has not returned, no
\* stream exists, nothing was written, no fetch attempt was made, and the
\* finished run has closed the session.
ListingAbort ==
    error \in {"goto", "listing"} =>
        /\ pc \in {"finally", "done"}
        /\ ~listingDone
        /\ stream = "none"
        /\ out = <<>>
        /\ tries = 0
        /\ results = <<>>
        /\ pagesOpen = 0
        /\ pc = "done" => browser = "closed"

\* C10 witness: the traversal threw after two records had been collected
\* and the run is over.
ListingAbortWitness ==
    /\ error = "listing"
    /\ pc = "done"
    /\ Len(companyList) = 2
    /\ iterations >= 1

\* The bytes of the output: its chunks, concatenated.
RECURSIVE Concat(_)
Concat(chunks) ==
    IF chunks = <<>> THEN "" ELSE Head(chunks) \o Concat(Tail(chunks))

\* The serialization of the k-th canonical record with the founders its
\* fetch returned, followed by a comma and a newline.
FramedRecord(k) ==
    StringifyCompany([companyList[k] EXCEPT !.founders = results[k][1]])
        \o "," \o "\n"

\* The framed records of the non-null results among the first k fetches.
RECURSIVE FramedRecords(_)
FramedRecords(k) ==
    IF k = 0 THEN ""
    ELSE FramedRecords(k - 1) \o (IF results[k] # None THEN FramedRecord(k) ELSE "")

\* C11 Output framing: before the traversal has returned nothing is
\* written; from then on the output is the opening '[' line followed by one
\* chunk per non-null result, each a serialized record and a comma; a run
\* whose traversal returned ends with the stream ended, and the bytes are
\* then '[', every enriched record followed by a comma, and ']', whatever
\* fetches failed.
OutputFraming ==
    /\ stream = "none" => out = <<>>
    /\ stream = "open" =>
          /\ out = <<"[\n">> \o WrittenRecords
          /\ Concat(out) = "[\n" \o FramedRecords(Len(results))
    /\ stream = "ended" =>
          /\ out = <<"[\n">> \o WrittenRecords \o <<"]">>
          /\ Len(results) = Len(companyList)
          /\ Concat(out) = "[\n" \o FramedRecords(Len(companyList)) \o "]"
    /\ (listingDone /\ pc \in {"finally", "done"}) => stream = "ended"

\* C11 witness: the run is over, one of two fetches returned null, and the
\* one record written is followed by a comma right before the ']'.
OutputFramingWitness ==
    /\ pc = "done"
    /\ stream = "ended"
    /\ Len(results) = 2
    /\ results[1] # None
    /\ results[2] = None
    /\ Len(out) = 3

\* The chunks of the output that serialize the i-th canonical record, with
\* whatever founders.
ChunksOf(i) ==
    LET forms == {RecordChunk(companyList[i], fl) :
                     fl \in FounderLists \cup {<<>>}}
    IN  {j \in 1..Len(out) : IsRecordChunk(out[j]) /\ out[j] \in forms}

\* C12 Single enrichment: the fetcher runs for record idx only while that
\* record has no result, and every record has one result when the stream
\* is ended, so each record is fetched exactly once; the founders of a
\* record are empty until its fetch returns a non-null result and are that
\* result afterwards; a record with founders was written with them in the
\* same step, and no record has more than one chunk in the output.
SingleEnrichment ==
    /\ Len(results) <= Len(companyList)
    /\ pc \in FetchPcs \cup {"e_next"} => idx = Len(results) + 1
    /\ stream = "ended" => Len(results) = Len(companyList)
    /\ \A i \in 1..Len(companyList) :
          /\ companyList[i].founders =
                IF i <= Len(results) /\ results[i] # None
                THEN results[i][1] ELSE <<>>
          /\ Len(WrittenRecords) > 1 => Cardinality(ChunksOf(i)) <= 1
          /\ companyList[i].founders # <<>> =>
                RecordChunk(companyList[i], companyList[i].founders)
                    \in Range(out)

\* C12 witness: the run is over; the first record was fetched once, got
\* founders and was written once, the second got null and kept its empty
\* founders.
SingleEnrichmentWitness ==
    /\ pc = "done"
    /\ Len(companyList) = 2
    /\ Len(results) = 2
    /\ companyList[1].founders # <<>>
    /\ companyList[2].founders = <<>>
    /\ Cardinality(ChunksOf(1)) = 1

\* The height measured by the scroll before the k-th one, 0 before the first.
HeightBefore(k) == IF k = 1 THEN 0 ELSE heights[k - 1]

\* C13 Traversal halt rule: every scroll but the last one measured a height
\* strictly greater than the one before it (0 before the first); the
\* traversal has returned exactly when the last scroll measured a height
\* equal to or smaller than the one before; it has then taken one snapshot
\* per scroll, at least one; and while it runs without an exception it has
\* taken its first snapshot by the time it scrolls, one more than the
\* scrolls made.
TraversalHaltRule ==
    /\ \A k \in 1..(Len(heights) - 1) : heights[k] > HeightBefore(k)
    /\ listingDone <=>
          /\ heights # <<>>
          /\ heights[Len(heights)] <= HeightBefore(Len(heights))
    /\ listingDone => iterations = Len(heights) /\ iterations >= 1
    /\ pc \in {"l_item", "l_scroll"} => iterations = Len(heights) + 1
    /\ pc \in {"l_wait", "l_query"} => iterations = Len(heights)

\* C13 witness: the traversal went on after a first scroll that grew the
\* page and halted at a second scroll that measured a smaller height.
TraversalHaltWitness ==
    /\ listingDone
    /\ heights = <<250, 100>>
    /\ iterations = 2

\* C14 First completed attempt ends the retry loop: an attempt is started
\* only after every earlier attempt of the fetch has thrown (tries is
\* retries at the head of the loop and retries + 1 inside an attempt); a
\* fetch that returned after an attempt that did not throw made exactly
\* retries + 1 attempts, at most maxRetries, and returned the extracted
\* list when it is not empty and null when it is empty.
FirstCompletedAttempt ==
    /\ pc = "f_newPage" => tries = retries
    /\ pc \in FetchPcs \ {"f_newPage"} => tries = retries + 1
    /\ FetchReturned =>
          /\ tries \in {retries, retries + 1}
          /\ tries = retries + 1 =>
                /\ tries <= MaxRetries
                /\ results[Len(results)] =
                      IF founderList # <<>> THEN Some(founderList) ELSE None

\* C14 witness: the first attempt threw, the second completed with an
\* empty extraction, and the fetch returned null after these two attempts.
FirstCompletedAttemptWitness ==
    /\ pc = "e_next"
    /\ results # <<>>
    /\ retries = 1
    /\ tries = 2
    /\ founderList = <<>>
    /\ results[Len(results)] = None

\* The chunks the first k canonical records are written as, with the
\* founders they have.
RECURSIVE CanonicalChunks(_)
CanonicalChunks(k) ==
    IF k = 0 THEN <<>>
    ELSE Append(CanonicalChunks(k - 1),
                RecordChunk(companyList[k], companyList[k].founders))

\* C15 Output order: the canonical records are in the order of the first
\* emission of their keys, every record chunk of the output is the
\* serialization of a canonical record, and of two record chunks the
\* earlier one is that of the record inserted earlier.
OutputOrder ==
    LET chunk == CanonicalChunks(Len(companyList))
        written == WrittenRecords
    IN  /\ CanonicalKeys = FirstOccurrences(emitted)
        /\ \A j \in 1..Len(written) :
              \E i \in 1..Len(companyList) : written[j] = chunk[i]
        /\ \A j, k \in 1..Len(written) :
              \A i, l \in 1..Len(companyList) :
                  (j < k /\ written[j] = chunk[i] /\ written[k] = chunk[l])
                      => i < l

\* C15 witness: two records were written, the one emitted first before the
\* other.
OutputOrderWitness ==
    /\ pc = "done"
    /\ Len(WrittenRecords) = 2
    /\ Len(emitted) > 2
    /\ Key(companyList[1]) = emitted[1]

\* An item that has a name, a location and an href.
HasAllFields(item) ==
    item.name # None /\ item.location # None /\ item.href # None

\* s is n blocks, each a prefix of full at least as long as the block
\* before it (least the first), the last one full itself.
RECURSIVE IsRevisitation(_, _, _, _)
IsRevisitation(s, full, n, least) ==
    IF n = 0 THEN s = <<>>
    ELSE \E len \in least..Len(full) :
            /\ n = 1 => len = Len(full)
            /\ len <= Len(s)
            /\ SubSeq(s, 1, len) = SubSeq(full, 1, len)
            /\ IsRevisitation(SubSeq(s, len + 1, Len(s)), full, n - 1, len)

\* C16 Re-visitation stream: at the end of every iteration (the page only
\* appends), every item of the snapshot that has a name, a location and an
\* href has been emitted; the emissions so far are one block per iteration,
\* each block the emitted items of that iteration's snapshot, a prefix of
\* the last snapshot's, so an item is emitted once in every iteration from
\* the one it appeared in; every record carries the name and location of
\* its item; and the keys of the canonical set are the keys emitted from
\* the last snapshot.
Revisitation ==
    pc \in {"l_scroll", "stream"} =>
        LET WasEmitted(item) == item \in Range(emittedFrom)
            last == SelectSeq(companies, WasEmitted)
        IN  /\ \A item \in Range(companies) :
                  HasAllFields(item) => WasEmitted(item)
            /\ IsRevisitation(emittedFrom, last, iterations, 0)
            /\ Len(emitted) = Len(emittedFrom)
            /\ \A i \in 1..Len(emitted) :
                  /\ emitted[i].name = emittedFrom[i].name[1]
                  /\ emitted[i].location = emittedFrom[i].location[1]
            /\ Range(CanonicalKeys) =
                  Range(SubSeq(emitted, Len(emitted) - Len(last) + 1,
                               Len(emitted)))

\* C16 witness: the traversal returned after two iterations; the first
\* snapshot had one item, the second that item and a new one, and three
\* records were emitted for two canonical ones.
RevisitationWitness ==
    /\ pc = "stream"
    /\ iterations = 2
    /\ Len(companies) = 2
    /\ Len(emittedFrom) = 3
    /\ Len(companyList) = 2

\* C17 as stated: at most one detail page is open at any moment.
AtMostOnePageOpen ==
    pagesOpen <= 1

\* A card whose name was extracted and whose links container was found.
IsPerson(card) ==
    card.name # None /\ card.name[1] # "" /\ card.socials # None

\* The anchors of a card that have an href.
HasHref(anchor) == anchor # None /\ anchor[1] # ""

\* C18 Written persons: once an attempt has extracted, its list holds one
\* person per card that has a name and a links container, in order, with
\* the name of the card and the hrefs of its anchors, and no other card;
\* every returned list is non-empty and all its persons have a non-empty
\* name; and no chunk of the output is a record with empty founders.
WrittenPersons ==
    /\ pc = "f_close" =>
          LET persons == SelectSeq(founders, IsPerson)
          IN  /\ Len(founderList) = Len(persons)
              /\ \A k \in 1..Len(persons) :
                    LET anchors == SelectSeq(persons[k].socials[1], HasHref)
                    IN  /\ founderList[k].name = persons[k].name[1]
                        /\ founderList[k].links =
                              [a \in 1..Len(anchors) |-> anchors[a][1]]
    /\ \A i \in 1..Len(results) :
          results[i] # None =>
              /\ results[i][1] # <<>>
              /\ \A k \in 1..Len(results[i][1]) : results[i][1][k].name # ""
    /\ WrittenRecords # <<>> =>
          \A i \in 1..Len(companyList) :
              RecordChunk(companyList[i], <<>>) \notin Range(out)

\* C18 witness: a record was written with two persons, the second with a
\* name and no links.
WrittenPersonsWitness ==
    /\ pc = "done"
    /\ Len(WrittenRecords) = 1
    /\ results[1] # None
    /\ Len(results[1][1]) = 2
    /\ results[1][1][2].links = <<>>

\* The steps the enrichment phase can still take, at most: a variant of the
\* phase. A record not yet fetched counts for a whole fetch (every attempt
\* of it, each of its steps) and its receipt; the running fetch counts for
\* the attempts it has left and the steps left in the running one.
Remaining ==
    LET N == Len(companyList)
        steps == Cardinality(FetchPcs) + 1
        W == steps * MaxRetries + 1
        rank == CASE pc = "f_newPage" -> 5
                  [] pc = "f_goto"    -> 4
                  [] pc = "f_wait"    -> 3
                  [] pc = "f_extract" -> 2
                  [] pc = "f_close"   -> 1
                  [] OTHER            -> 0
    IN  CASE pc = "stream"   -> N * W + 3
          [] pc = "e_next"   -> (N - idx + 1) * W + 2
          [] pc \in FetchPcs -> (N - idx) * W + 2
                                + (MaxRetries - retries - 1) * steps + rank
          [] pc = "finally"  -> 1
          [] OTHER           -> 0

\* An upper bound on the fetch attempts started so far: maxRetries for
\* every fetch that has returned, and the attempts of the running one.
AttemptsStarted ==
    Len(results) * MaxRetries + (IF pc \in FetchPcs THEN tries ELSE 0)

\* C19 Enrichment terminates: once the traversal has halted with N records,
\* every step strictly decreases a non-negative variant, and a step is
\* possible until the run is over, so the phase cannot loop or stop short;
\* no fetch makes more than maxRetries attempts and no more than N fetches
\* are made, so at most N x maxRetries attempts are made; no failure of a
\* fetch aborts the run; and the run ends with the closing bracket written
\* last, the stream ended and the session closed, after one fetch per
\* record.
EnrichmentTerminates ==
    /\ [][listingDone => Remaining' < Remaining]_vars
    /\ [](listingDone =>
            /\ Remaining >= 0
            /\ error = "none"
            /\ tries <= MaxRetries
            /\ Len(results) + (IF pc \in FetchPcs THEN 1 ELSE 0)
                  <= Len(companyList)
            /\ AttemptsStarted <= Len(companyList) * MaxRetries)
    /\ []((listingDone /\ pc # "done") => ENABLED Next)
    /\ []((listingDone /\ pc = "done") =>
            /\ Len(results) = Len(companyList)
            /\ out # <<>>
            /\ out[Len(out)] = "]"
            /\ \A i \in 1..(Len(out) - 1) : out[i] # "]"
            /\ stream = "ended"
            /\ browser = "closed")

\* C19 witness: both fetches of a run with two records used every attempt
\* and failed, and the run is over with the closing bracket written, the
\* stream ended and the session closed.
EnrichmentTerminatesWitness ==
    /\ pc = "done"
    /\ listingDone
    /\ Len(companyList) = 2
    /\ results = <<None, None>>
    /\ tries = MaxRetries
    /\ out = <<"[\n", "]">>
    /\ stream = "ended"
    /\ browser = "closed"

====
